---------------------------- MODULE Spec2Model ----------------------------
(***************************************************************************)
(* Model of geotif2envi.py: a batch converter that reads a list of GeoTIFF *)
(* paths, derives a YYYYDOY token from each file name, re-encodes each     *)
(* raster as ENVI through GDAL, and writes two manifests.                  *)
(*                                                                         *)
(* Strings are sequences of one-character strings, so that basename,       *)
(* splitext, the \d{8} search, strptime and the f-string formatting are    *)
(* computed on characters, as the Python code computes them.               *)
(***************************************************************************)
EXTENDS Integers, Sequences, FiniteSets, TLC

\* ------------------------------------------------------------------ bounds
\* The list file is built from at most MaxEntries pieces (see Init).
MaxEntries == 2
\* A source raster has between 0 and MaxBands bands.
MaxBands == 1

\* -------------------------------------------------------------- characters
Digits == {"0", "1", "2", "3", "4", "5", "6", "7", "8", "9"}

DigitVal(c) ==
    CASE c = "0" -> 0 [] c = "1" -> 1 [] c = "2" -> 2 [] c = "3" -> 3
      [] c = "4" -> 4 [] c = "5" -> 5 [] c = "6" -> 6 [] c = "7" -> 7
      [] c = "8" -> 8 [] c = "9" -> 9

DigitChar(d) == <<"0", "1", "2", "3", "4", "5", "6", "7", "8", "9">>[d + 1]

\* int(s) for a sequence of decimal digits.
RECURSIVE StrToInt(_)
StrToInt(s) ==
    IF s = <<>> THEN 0
    ELSE 10 * StrToInt(SubSeq(s, 1, Len(s) - 1)) + DigitVal(s[Len(s)])

\* str(n) / f"{n}" for n >= 0: decimal digits, no padding.
RECURSIVE IntToStr(_)
IntToStr(n) ==
    IF n < 10 THEN <<DigitChar(n)>>
    ELSE IntToStr(n \div 10) \o <<DigitChar(n % 10)>>

\* f"{n:03d}": zero-padded to a minimum width of 3.
Pad03d(n) ==
    LET s == IntToStr(n)
    IN  IF Len(s) >= 3 THEN s
        ELSE IF Len(s) = 2 THEN <<"0">> \o s
        ELSE <<"0", "0">> \o s

\* ------------------------------------------------------------ os.path (POSIX)
\* Index of the last occurrence of character c in s, 0 when there is none
\* (str.rfind, 1-based).
RFind(s, c) ==
    LET hits == {k \in 1..Len(s) : s[k] = c}
    IN  IF hits = {} THEN 0 ELSE CHOOSE k \in hits : \A j \in hits : j <= k

\* os.path.basename(p): what follows the last "/".
basename(p) == SubSeq(p, RFind(p, "/") + 1, Len(p))

\* os.path.splitext(p)[0]: p up to its last ".", unless that dot is one of
\* the leading dots of the last path component (genericpath._splitext).
splitext_root(p) ==
    LET sep == RFind(p, "/")
        dot == RFind(p, ".")
    IN  IF dot > sep /\ \E k \in sep + 1..dot - 1 : p[k] # "."
        THEN SubSeq(p, 1, dot - 1)
        ELSE p

\* os.path.join(a, b) for a relative b.
path_join(a, b) ==
    IF a = <<>> \/ a[Len(a)] = "/" THEN a \o b ELSE a \o <<"/">> \o b


\* ------------------------------------------------------------ text files
\* Line boundaries of str.splitlines that the modelled list files contain.
LineBoundaries == {"\n", "\f"}

\* str.splitlines(): split at every line boundary; no empty last element
\* when the text ends with a boundary; [] for the empty text.
RECURSIVE splitlines(_)
splitlines(s) ==
    LET brk == {k \in 1..Len(s) : s[k] \in LineBoundaries}
    IN  IF s = <<>> THEN <<>>
        ELSE IF brk = {} THEN <<s>>
        ELSE LET k == CHOOSE x \in brk : \A y \in brk : x <= y
             IN  <<SubSeq(s, 1, k - 1)>> \o splitlines(SubSeq(s, k + 1, Len(s)))

\* A variant of read_file_list that takes the first line for a header.
ReadDropFirst(text) ==
    IF splitlines(text) = <<>> THEN <<>> ELSE Tail(splitlines(text))

\* read_file_list(file_path): file.read().splitlines().
read_file_list(text) == splitlines(text)

\* A variant of save_list_to_file that writes the last item first.
RECURSIVE SaveReversed(_)
SaveReversed(data_list) ==
    IF data_list = <<>> THEN <<>>
    ELSE SaveReversed(Tail(data_list)) \o Head(data_list) \o <<"\n">>

\* save_list_to_file(data_list, file_path): the text written, f"{item}\n"
\* for each item in order.
RECURSIVE save_list_to_file(_)
save_list_to_file(data_list) ==
    IF data_list = <<>> THEN <<>>
    ELSE Head(data_list) \o <<"\n">> \o save_list_to_file(Tail(data_list))

\* ------------------------------------------------------------------ dates
\* re.search(r'\d{8}', s).group(): the first 8 consecutive digits of s;
\* <<>> stands for None (no match).
DateRunLen == 8
re_search(s) ==
    LET starts == {k \in 1..Len(s) - DateRunLen + 1 :
                      \A j \in k..k + DateRunLen - 1 : s[j] \in Digits}
    IN  IF starts = {} THEN <<>>
        ELSE LET k == CHOOSE x \in starts : \A y \in starts : x <= y
             IN  SubSeq(s, k, k + DateRunLen - 1)

\* datetime._is_leap and datetime._DAYS_IN_MONTH.
is_leap(year) == year % 4 = 0 /\ (year % 100 # 0 \/ year % 400 = 0)

days_in_month(year, month) ==
    IF month = 2 /\ is_leap(year) THEN 29
    ELSE <<31, 28, 31, 30, 31, 30, 31, 31, 30, 31, 30, 31>>[month]

RECURSIVE days_before_month(_, _)
days_before_month(year, month) ==
    IF month = 1 THEN 0
    ELSE days_before_month(year, month - 1) + days_in_month(year, month - 1)

\* datetime.strptime(date_str, '%Y%m%d') on 8 digits: %Y takes four digits,
\* %m two (01..12), %d two (01..31); the date constructor then rejects year 0
\* and a day past the end of the month.  ok = FALSE stands for ValueError.
strptime(date_str) ==
    LET y == StrToInt(SubSeq(date_str, 1, 4))
        m == StrToInt(SubSeq(date_str, 5, 6))
        d == StrToInt(SubSeq(date_str, 7, 8))
    IN  IF m \in 1..12 /\ d \in 1..31 /\ y >= 1 /\ d <= days_in_month(y, m)
        THEN [ok |-> TRUE, year |-> y, month |-> m, day |-> d]
        ELSE [ok |-> FALSE, year |-> 0, month |-> 0, day |-> 0]

\* date_obj.timetuple().tm_yday
tm_yday(date_obj) ==
    days_before_month(date_obj.year, date_obj.month) + date_obj.day

\* extract_date_from_filename(filename, r'\d{8}'): the token, or the error
\* raised.
extract_date_from_filename(filename) ==
    LET date_str == re_search(filename)
        date_obj == strptime(date_str)
    IN  IF date_str = <<>>
        THEN [err |-> "DateFormatNotFound", token |-> <<>>]
        ELSE IF ~date_obj.ok
        THEN [err |-> "InvalidDateValue", token |-> <<>>]
        ELSE [err |-> "none",
              token |-> IntToStr(date_obj.year) \o Pad03d(tm_yday(date_obj))]

\* ----------------------------------------------------------------- inputs
\* The lines a list file is built from.
\* a valid date in a non-leap year (day 95)
in_a_tif == <<"a", "/", "s", "2", "0", "2", "3", "0", "4", "0", "5", ".", "t", "i", "f">>
\* the same name in another directory, with another extension
in_b_dat == <<"b", "/", "s", "2", "0", "2", "3", "0", "4", "0", "5", ".", "d", "a", "t">>
\* 31 December of a leap year (day 366), in a run of nine digits: the first
\* eight are taken
in_leap == <<"s", "2", "0", "2", "4", "1", "2", "3", "1", "9", ".", "t", "i", "f">>
\* two dots in the name; 29 February of a leap year
in_dots == <<"v", ".", "2", "0", "2", "4", "0", "2", "2", "9", ".", "x">>
\* a year below 1000
in_y999 == <<"s", "0", "9", "9", "9", "0", "1", "0", "1", ".", "t", "i", "f">>
\* no such day
in_feb30 == <<"2", "0", "2", "3", "0", "2", "3", "0", ".", "t", "i", "f">>
\* 1900 is not a leap year
in_1900 == <<"s", "1", "9", "0", "0", "0", "2", "2", "9", ".", "t", "i", "f">>
\* year 0 is no year of datetime
in_y0 == <<"0", "0", "0", "0", "0", "1", "0", "1">>
\* the first run of eight digits is no date, the second is
in_two == <<"1", "3", "0", "1", "1", "3", "0", "1", "_", "2", "0", "2", "3", "0", "1", "0", "2">>
\* a date in the directory only
in_dirdate == <<"2", "0", "2", "3", "0", "4", "0", "5", "/", "x", ".", "t", "i", "f">>
\* an empty line
in_blank == <<>>
\* two entries separated by a form feed
in_ff == <<"s", "2", "0", "2", "3", "0", "4", "0", "5", "\f", "s", "2", "0", "2", "4", "1", "2", "3", "1">>

Pieces ==
    {in_a_tif, in_b_dat, in_leap, in_dots, in_y999, in_feb30,
     in_1900, in_y0, in_two, in_dirdate, in_blank, in_ff}

\* The pieces joined by "\n", with or without a final "\n".
RECURSIVE JoinLines(_)
JoinLines(ls) ==
    IF ls = <<>> THEN <<>>
    ELSE IF Len(ls) = 1 THEN Head(ls)
    ELSE Head(ls) \o <<"\n">> \o JoinLines(Tail(ls))

ListTexts ==
    {JoinLines(ls) \o nl :
        ls \in UNION {[1..n -> Pieces] : n \in 0..MaxEntries},
        nl \in {<<>>, <<"\n">>}}

OutputFolders == {<<"o">>, <<"o", "/">>}

\* --output_dtype values; the last one is in no dtype_map.
Dtypes == {"float32", "int16", "uint8", "float64"}

\* The keys of dtype_map.
dtype_map == {"float32", "int16", "uint8"}

\* ------------------------------------------------------------------ state
VARIABLES
    list_exists,        \* the list file exists
    file_text,          \* its text
    output_folder,      \* args.output_folder
    output_dtype,       \* the pixel type passed to geotiff_to_envi
    envi_driver,        \* GDAL was built with the ENVI driver
    pc,                 \* the statement the program is at
    file_list,          \* main: file_list
    output_files,       \* geotiff_to_envi: output_files (then main's)
    time_vector,        \* geotiff_to_envi: time_vector (then main's)
    idx,                \* the position of the for loop in file_list
    output_path,        \* geotiff_to_envi: output_path
    src_ds,             \* geotiff_to_envi: src_ds (0: None, k: opened for entry k)
    dst_ds,             \* geotiff_to_envi: dst_ds (0: None, k: created for entry k)
    bands,              \* src_ds.RasterCount
    band,               \* the position of the band loop
    open_ds,            \* GDAL: the datasets now open, <<"src", k>> or <<"dst", k>>
    disk,               \* the rasters in the output folder: path -> [from, written]
    error,              \* the exception raised ("none": none)
    err_idx,            \* the loop position when it was raised
    calls,              \* the steps taken so far, <<step, k>> for entry k
    envi_file_list_txt, \* ENVI_file_list.txt: [exists, text]
    time_vector_txt     \* time_vector.txt: [exists, text]

args == <<list_exists, file_text, output_folder, output_dtype, envi_driver>>
locals == <<output_path, src_ds, dst_ds, bands, band>>
lists == <<output_files, time_vector>>
manifests == <<envi_file_list_txt, time_vector_txt>>
vars == <<args, pc, file_list, lists, idx, locals, open_ds, disk, error,
          err_idx, calls, manifests>>

NoFile == [exists |-> FALSE, text |-> <<>>]
EmptyDisk == [p \in {} |-> 0]

Init ==
    /\ list_exists \in BOOLEAN
    /\ file_text \in ListTexts
    /\ output_folder \in OutputFolders
    /\ output_dtype \in Dtypes
    /\ envi_driver \in BOOLEAN
    /\ pc = "main"
    /\ file_list = <<>>
    /\ output_files = <<>>
    /\ time_vector = <<>>
    /\ idx = 0
    /\ output_path = <<>>
    /\ src_ds = 0
    /\ dst_ds = 0
    /\ bands = 0
    /\ band = 0
    /\ open_ds = {}
    /\ disk = EmptyDisk
    /\ error = "none"
    /\ err_idx = 0
    /\ calls = {}
    /\ envi_file_list_txt = NoFile
    /\ time_vector_txt = NoFile

\* ---------------------------------------------------------------- actions
\* raise: the exception leaves geotiff_to_envi; its frame, and the datasets
\* its locals hold, live until main's handler is done.
Raise(kind) ==
    /\ error' = kind
    /\ err_idx' = idx
    /\ pc' = "raised"

\* main, lines 127-132: read the list, or print and return when it is missing.
ReadFileList ==
    /\ pc = "main"
    /\ IF list_exists
       THEN /\ file_list' = read_file_list(file_text)
            /\ pc' = "call"
       ELSE /\ file_list' = file_list
            /\ pc' = "no_list"
    /\ UNCHANGED <<args, lists, idx, locals, open_ds, disk, error, err_idx,
                   calls, manifests>>

\* A variant of CheckDtype without the test: the pixel type is looked up
\* only when a destination is created.
CheckDtypeLate ==
    /\ pc = "call"
    /\ output_files' = <<>>
    /\ time_vector' = <<>>
    /\ pc' = "for"
    /\ UNCHANGED <<error, err_idx>>
    /\ UNCHANGED <<args, file_list, idx, locals, open_ds, disk, calls,
                   manifests>>

\* geotiff_to_envi, lines 43-53: the pixel type is checked before the loop.
CheckDtype ==
    /\ pc = "call"
    /\ IF output_dtype \notin dtype_map
       THEN /\ Raise("UnsupportedDataType")
            /\ UNCHANGED lists
       ELSE /\ output_files' = <<>>
            /\ time_vector' = <<>>
            /\ pc' = "for"
            /\ UNCHANGED <<error, err_idx>>
    /\ UNCHANGED <<args, file_list, idx, locals, open_ds, disk, calls,
                   manifests>>

\* line 55: the loop takes the next entry of file_list.
ForNext ==
    /\ pc = "for"
    /\ idx < Len(file_list)
    /\ idx' = idx + 1
    /\ pc' = "extract"
    /\ UNCHANGED <<args, file_list, lists, locals, open_ds, disk, error,
                   err_idx, calls, manifests>>

\* line 102: the loop is exhausted; both lists are returned to main.
Return ==
    /\ pc = "for"
    /\ idx = Len(file_list)
    /\ pc' = "save_files"
    /\ UNCHANGED <<args, file_list, lists, idx, locals, open_ds, disk, error,
                   err_idx, calls, manifests>>

\* A variant of ExtractDate that searches the whole path.
ExtractDateFullPath ==
    /\ pc = "extract"
    /\ calls' = calls \cup {<<"extract", idx>>}
    /\ LET r == extract_date_from_filename(file_list[idx])
       IN  IF r.err # "none"
           THEN /\ Raise(r.err)
                /\ UNCHANGED time_vector
           ELSE /\ time_vector' = Append(time_vector, r.token)
                /\ pc' = "outpath"
                /\ UNCHANGED <<error, err_idx>>
    /\ UNCHANGED <<args, file_list, output_files, idx, locals, open_ds, disk,
                   manifests>>

\* lines 57-58: the date of the entry's basename, appended to time_vector.
ExtractDate ==
    /\ pc = "extract"
    /\ calls' = calls \cup {<<"extract", idx>>}
    /\ LET r == extract_date_from_filename(basename(file_list[idx]))
       IN  IF r.err # "none"
           THEN /\ Raise(r.err)
                /\ UNCHANGED time_vector
           ELSE /\ time_vector' = Append(time_vector, r.token)
                /\ pc' = "outpath"
                /\ UNCHANGED <<error, err_idx>>
    /\ UNCHANGED <<args, file_list, output_files, idx, locals, open_ds, disk,
                   manifests>>

\* A variant of OutputPath that keeps the extension: <basename>.img
OutputPathKeepExt(folder, geotiff_path) ==
    path_join(folder, basename(geotiff_path) \o <<".", "i", "m", "g">>)

\* lines 61-62: <output_folder>/<basename without its extension>.img
OutputPath(folder, geotiff_path) ==
    path_join(folder,
              splitext_root(basename(geotiff_path)) \o <<".", "i", "m", "g">>)

\* A variant of MakeOutputPath that lists a destination path once.
MakeOutputPathOnce ==
    /\ pc = "outpath"
    /\ output_path' = OutputPath(output_folder, file_list[idx])
    /\ output_files' =
          IF \E k \in 1..Len(output_files) : output_files[k] = output_path'
          THEN output_files
          ELSE Append(output_files, output_path')
    /\ pc' = "open"
    /\ UNCHANGED <<args, file_list, time_vector, idx, src_ds, dst_ds, bands,
                   band, open_ds, disk, error, err_idx, calls, manifests>>

\* lines 61-63: the destination path, appended to output_files.
MakeOutputPath ==
    /\ pc = "outpath"
    /\ output_path' = OutputPath(output_folder, file_list[idx])
    /\ output_files' = Append(output_files, output_path')
    /\ pc' = "open"
    /\ UNCHANGED <<args, file_list, time_vector, idx, src_ds, dst_ds, bands,
                   band, open_ds, disk, error, err_idx, calls, manifests>>

\* Rebinding a local that holds dataset old of the given kind drops the last
\* reference to it, which closes it (0 is None).
Released(kind, old) == IF old = 0 THEN {} ELSE {<<kind, old>>}

\* A variant of OpenSource that skips an unreadable entry.
OpenSourceSkip ==
    /\ pc = "open"
    /\ calls' = calls \cup {<<"open", idx>>}
    /\ \/ /\ \E n \in 0..MaxBands : bands' = n
          /\ src_ds' = idx
          /\ open_ds' = (open_ds \ Released("src", src_ds)) \cup {<<"src", idx>>}
          /\ pc' = "driver"
       \/ /\ src_ds' = 0
          /\ open_ds' = open_ds \ Released("src", src_ds)
          /\ pc' = "for"
          /\ UNCHANGED bands
    /\ UNCHANGED <<error, err_idx>>
    /\ UNCHANGED <<args, file_list, lists, idx, output_path, dst_ds, band,
                   disk, manifests>>

\* lines 66-75: gdal.Open; None is FileNotFoundError; the metadata is read.
OpenSource ==
    /\ pc = "open"
    /\ calls' = calls \cup {<<"open", idx>>}
    /\ \/ /\ \E n \in 0..MaxBands : bands' = n
          /\ src_ds' = idx
          /\ open_ds' = (open_ds \ Released("src", src_ds)) \cup {<<"src", idx>>}
          /\ pc' = "driver"
          /\ UNCHANGED <<error, err_idx>>
       \/ /\ src_ds' = 0
          /\ open_ds' = open_ds \ Released("src", src_ds)
          /\ Raise("SourceOpenFailure")
          /\ UNCHANGED bands
    /\ UNCHANGED <<args, file_list, lists, idx, output_path, dst_ds, band,
                   disk, manifests>>

\* lines 78-80: gdal.GetDriverByName('ENVI'); None is RuntimeError.
GetDriver ==
    /\ pc = "driver"
    /\ IF envi_driver
       THEN /\ pc' = "create"
            /\ UNCHANGED <<error, err_idx>>
       ELSE Raise("DriverUnavailable")
    /\ UNCHANGED <<args, file_list, lists, idx, locals, open_ds, disk, calls,
                   manifests>>

\* lines 83-89: driver.Create makes (or truncates) the raster at output_path;
\* None is RuntimeError.  dtype_map[output_dtype] is looked up first.
CreateDest ==
    /\ pc = "create"
    /\ calls' = calls \cup {<<"create", idx>>}
    /\ IF output_dtype \notin dtype_map
       THEN /\ Raise("KeyError")
            /\ UNCHANGED <<dst_ds, open_ds, disk, band>>
       ELSE \/ /\ dst_ds' = idx
               /\ open_ds' =
                     (open_ds \ Released("dst", dst_ds)) \cup {<<"dst", idx>>}
               /\ disk' = [p \in DOMAIN disk \cup {output_path} |->
                             IF p = output_path
                             THEN [from |-> idx, written |-> 0]
                             ELSE disk[p]]
               /\ band' = 1
               /\ pc' = "copy"
               /\ UNCHANGED <<error, err_idx>>
            \/ /\ dst_ds' = 0
               /\ open_ds' = open_ds \ Released("dst", dst_ds)
               /\ Raise("DestinationCreateFailure")
               /\ UNCHANGED <<disk, band>>
    /\ UNCHANGED <<args, file_list, lists, idx, output_path, src_ds, bands,
                   manifests>>

\* lines 92-96: one band is read from the source and written to the
\* destination.
CopyBand ==
    /\ pc = "copy"
    /\ band <= bands
    /\ disk' = [disk EXCEPT ![output_path].written = @ + 1]
    /\ band' = band + 1
    /\ UNCHANGED <<args, pc, file_list, lists, idx, output_path, src_ds,
                   dst_ds, bands, open_ds, error, err_idx, calls, manifests>>

\* A variant of CloseDatasets that leaves the destination dataset to the
\* next iteration.
CloseSourceOnly ==
    /\ pc = "copy"
    /\ band > bands
    /\ calls' = calls \cup {<<"close", idx>>}
    /\ open_ds' = open_ds \ Released("src", src_ds)
    /\ src_ds' = 0
    /\ pc' = "for"
    /\ UNCHANGED <<args, file_list, lists, idx, output_path, dst_ds, bands,
                   band, disk, error, err_idx, manifests>>

\* lines 99-100: src_ds = None; dst_ds = None.
CloseDatasets ==
    /\ pc = "copy"
    /\ band > bands
    /\ calls' = calls \cup {<<"close", idx>>}
    /\ open_ds' = (open_ds \ Released("src", src_ds)) \ Released("dst", dst_ds)
    /\ src_ds' = 0
    /\ dst_ds' = 0
    /\ pc' = "for"
    /\ UNCHANGED <<args, file_list, lists, idx, output_path, bands, band,
                   disk, error, err_idx, manifests>>

\* A variant of MainCatch that falls through to the manifests with what was
\* collected.
MainCatchContinue ==
    /\ pc = "raised"
    /\ pc' = "save_files"
    /\ open_ds' = {}
    /\ src_ds' = 0
    /\ dst_ds' = 0
    /\ UNCHANGED <<args, file_list, lists, idx, output_path, bands, band,
                   disk, error, err_idx, calls, manifests>>

\* main, lines 137-139: the handler prints the error and returns; the frame
\* of geotiff_to_envi goes with the exception, and with it its datasets.
MainCatch ==
    /\ pc = "raised"
    /\ pc' = "aborted"
    /\ open_ds' = {}
    /\ src_ds' = 0
    /\ dst_ds' = 0
    /\ UNCHANGED <<args, file_list, lists, idx, output_path, bands, band,
                   disk, error, err_idx, calls, manifests>>

\* main, lines 142 and 145: ENVI_file_list.txt is written.
SaveOutputFiles ==
    /\ pc = "save_files"
    /\ envi_file_list_txt' =
          [exists |-> TRUE, text |-> save_list_to_file(output_files)]
    /\ pc' = "save_times"
    /\ UNCHANGED <<args, file_list, lists, idx, locals, open_ds, disk, error,
                   err_idx, calls, time_vector_txt>>

\* main, lines 143 and 146-149: time_vector.txt is written.
SaveTimeVector ==
    /\ pc = "save_times"
    /\ time_vector_txt' =
          [exists |-> TRUE, text |-> save_list_to_file(time_vector)]
    /\ pc' = "done"
    /\ UNCHANGED <<args, file_list, lists, idx, locals, open_ds, disk, error,
                   err_idx, calls, envi_file_list_txt>>

Next ==
    \/ ReadFileList
    \/ CheckDtype
    \/ ForNext
    \/ Return
    \/ ExtractDate
    \/ MakeOutputPath
    \/ OpenSource
    \/ GetDriver
    \/ CreateDest
    \/ CopyBand
    \/ CloseDatasets
    \/ MainCatch
    \/ SaveOutputFiles
    \/ SaveTimeVector

Spec == Init /\ [][Next]_vars

\* ------------------------------------------------------- claim vocabulary
Returned == pc \in {"save_files", "save_times", "done"}
Failed == error # "none"

\* The conversion of entry k is complete: opened, created, every band copied.
ConversionDone(k) ==
    \/ <<"close", k>> \in calls
    \/ k = idx /\ pc = "copy" /\ band > bands

NumDone == Cardinality({k \in 1..Len(file_list) : ConversionDone(k)})

\* The lines of a text file, as a reader of the manifests sees them: the
\* text between "\n"s.
RECURSIVE LinesOf(_)
LinesOf(text) ==
    IF text = <<>> THEN <<>>
    ELSE LET nl == {k \in 1..Len(text) : text[k] = "\n"}
             k  == IF nl = {} THEN Len(text) + 1
                   ELSE CHOOSE x \in nl : \A y \in nl : x <= y
         IN  <<SubSeq(text, 1, k - 1)>> \o LinesOf(SubSeq(text, k + 1, Len(text)))

\* The number of non-empty lines of a text: the positions where a line
\* starts with a character.
NonEmptyLineCount(text) ==
    Cardinality({k \in 1..Len(text) :
                    /\ text[k] \notin LineBoundaries
                    /\ k = 1 \/ text[k - 1] \in LineBoundaries})

\* Path p has a run of eight digits at k..k+7.
DigitRunAt(p, k) == k + 7 <= Len(p) /\ \A j \in k..k + 7 : p[j] \in Digits
\* ... lying in its file name, after every "/".
RunInName(p, k) == DigitRunAt(p, k) /\ \A j \in k..Len(p) : p[j] # "/"
\* ... lying in a directory component.
RunInDir(p, k) == DigitRunAt(p, k) /\ \E j \in k + 8..Len(p) : p[j] = "/"

\* The first run of eight digits in the file name of p (<<>>: none).
FirstRunInName(p) ==
    LET ks == {k \in 1..Len(p) : RunInName(p, k)}
    IN  IF ks = {} THEN <<>>
        ELSE LET k == CHOOSE x \in ks : \A y \in ks : x <= y
             IN  SubSeq(p, k, k + 7)

\* The Gregorian calendar, stated on its own.
MonthLength(y, m) ==
    IF m \in {4, 6, 9, 11} THEN 30
    ELSE IF m # 2 THEN 31
    ELSE IF y % 400 = 0 \/ (y % 4 = 0 /\ y % 100 # 0) THEN 29
    ELSE 28
CalendarDate(y, m, d) == y >= 1 /\ m \in 1..12 /\ d \in 1..MonthLength(y, m)
RunYear(run) == StrToInt(SubSeq(run, 1, 4))
RunMonth(run) == StrToInt(SubSeq(run, 5, 6))
RunDay(run) == StrToInt(SubSeq(run, 7, 8))
ValidRun(run) == CalendarDate(RunYear(run), RunMonth(run), RunDay(run))
\* The day of the year: the number of dates of the year up to this one.
DayOfYear(run) ==
    Cardinality({md \in (1..12) \X (1..31) :
                    /\ CalendarDate(RunYear(run), md[1], md[2])
                    /\ \/ md[1] < RunMonth(run)
                       \/ md[1] = RunMonth(run) /\ md[2] <= RunDay(run)})
\* Three digits, zero-padded.
ThreeDigits(n) ==
    <<DigitChar(n \div 100), DigitChar((n \div 10) % 10), DigitChar(n % 10)>>

\* The names p can be read as <directory/><name><.extension>: a name has
\* no "/" and no ".", an extension is "." and characters other than "." and "/".
NameStems(p) ==
    {SubSeq(p, a + 1, b) : <<a, b>> \in
        {ab \in (0..Len(p)) \X (1..Len(p)) :
            /\ ab[1] < ab[2]
            /\ ab[1] = 0 \/ p[ab[1]] = "/"
            /\ \A j \in ab[1] + 1..ab[2] : p[j] \notin {"/", "."}
            /\ \/ ab[2] = Len(p)
               \/ /\ p[ab[2] + 1] = "."
                  /\ \A j \in ab[2] + 2..Len(p) : p[j] \notin {"/", "."}}}

\* p and q differ at most in directory and in extension.
SameUpToDirExt(p, q) == NameStems(p) \cap NameStems(q) # {}

\* ----------------------------------------------------------------- claims
\* C1: when the conversion of any entry fails, neither ENVI_file_list.txt
\* nor time_vector.txt is created or written in that run.
C1_NoManifestAfterFailure ==
    Failed => /\ envi_file_list_txt = NoFile
              /\ time_vector_txt = NoFile
              /\ pc \in {"raised", "aborted"}

\* C1's case: a list of two or more entries, the second or a later one
\* failed after a raster of an earlier one was written, and main has returned.
C1_Witness ==
    /\ pc = "aborted"
    /\ Len(file_list) >= 2
    /\ err_idx >= 2
    /\ disk # EmptyDisk
    /\ envi_file_list_txt = NoFile

\* C2: when geotiff_to_envi returns, the destination-path list and the
\* date-token list have the same length, the number of non-empty lines of
\* the list file.
C2_LengthsMatch ==
    Returned => /\ Len(output_files) = Len(time_vector)
                /\ Len(output_files) = NonEmptyLineCount(file_text)

\* C2's case: a list file of three lines or more was converted.
C2_Witness ==
    /\ Returned
    /\ Len(output_files) >= 3
    /\ NonEmptyLineCount(file_text) >= 3

\* C3: after a successful run, line i of ENVI_file_list.txt is the
\* destination path of entry i and line i of time_vector.txt is its date
\* token.
C3_ManifestsAligned ==
    pc = "done" =>
        LET fl == LinesOf(envi_file_list_txt.text)
            tv == LinesOf(time_vector_txt.text)
        IN  /\ envi_file_list_txt.exists /\ time_vector_txt.exists
            /\ Len(fl) = Len(file_list)
            /\ Len(tv) = Len(file_list)
            /\ \A i \in 1..Len(file_list) :
                  /\ fl[i] = OutputPath(output_folder, file_list[i])
                  /\ tv[i] = extract_date_from_filename(
                                 basename(file_list[i])).token

\* C3's case: a run over two entries with different destinations and
\* different dates ended well.
C3_Witness ==
    /\ pc = "done"
    /\ Len(file_list) >= 2
    /\ output_files[1] # output_files[2]
    /\ time_vector[1] # time_vector[2]

\* C4: once the date of entry k has been extracted and the first run of
\* eight digits of its file name is a calendar date, the token is seven
\* characters, the four digits of the year and the three digits of the day
\* of the year; when the run is no calendar date, the extraction failed.
C4_TokenIsYearAndDayOfYear ==
    \A k \in 1..Len(file_list) :
        LET run == FirstRunInName(file_list[k])
        IN  (<<"extract", k>> \in calls /\ run # <<>>) =>
                IF ValidRun(run)
                THEN /\ k <= Len(time_vector)
                     /\ Len(time_vector[k]) = 7
                     /\ time_vector[k] =
                           SubSeq(run, 1, 4) \o ThreeDigits(DayOfYear(run))
                ELSE Failed /\ err_idx = k /\ error = "InvalidDateValue"

\* C5: with a pixel type other than float32, int16 and uint8, the call
\* fails with the unsupported-data-type error before any date is
\* extracted, any source opened or any destination created.
C5_UnsupportedTypeFailsFirst ==
    output_dtype \notin {"float32", "int16", "uint8"} =>
        /\ calls = {}
        /\ open_ds = {}
        /\ disk = EmptyDisk
        /\ time_vector = <<>> /\ output_files = <<>>
        /\ pc \in {"main", "no_list", "call", "raised", "aborted"}
        /\ pc \in {"raised", "aborted"} => error = "UnsupportedDataType"

\* C5's case: a non-empty list and an unsupported type; the call has failed.
C5_Witness ==
    /\ output_dtype = "float64"
    /\ Len(file_list) >= 2
    /\ pc = "aborted"
    /\ error = "UnsupportedDataType"

\* C6: an entry whose file name has no run of eight digits fails with the
\* date-format-not-found error, whatever its directory holds, and its
\* source is not opened.
C6_DateOnlyInBasename ==
    \A k \in 1..Len(file_list) :
        (/\ <<"extract", k>> \in calls
         /\ ~\E j \in 1..Len(file_list[k]) : RunInName(file_list[k], j)) =>
            /\ Failed
            /\ error = "DateFormatNotFound"
            /\ err_idx = k
            /\ <<"open", k>> \notin calls
            /\ open_ds = {} \/ pc = "raised"

\* C6's case: the date of an entry with eight digits in a directory
\* component, and none in its file name, has been searched.
C6_Witness ==
    \E k \in 1..Len(file_list) :
        /\ <<"extract", k>> \in calls
        /\ \E j \in 1..Len(file_list[k]) : RunInDir(file_list[k], j)
        /\ ~\E j \in 1..Len(file_list[k]) : RunInName(file_list[k], j)
        /\ error = "DateFormatNotFound"

\* C7 as stated: neither sequence holds an element for an entry whose
\* conversion has not completed.
C7_AppendedAfterConversion ==
    /\ \A k \in 1..Len(output_files) : ConversionDone(k)
    /\ \A k \in 1..Len(time_vector) : ConversionDone(k)

\* C7 as amended: the date token of an entry is appended once its date is
\* extracted and its destination path right after, both before its source
\* is opened; each sequence holds one element for every entry converted so
\* far plus at most one for the entry in progress, and main receives the
\* sequences only when every entry is converted.
C7_AppendedBeforeOpen ==
    /\ \A k \in 1..Len(time_vector) : <<"extract", k>> \in calls
    /\ Len(output_files) <= Len(time_vector)
    /\ Len(time_vector) <= Len(output_files) + 1
    /\ \A k \in 1..Len(file_list) :
          <<"open", k>> \in calls =>
              k <= Len(output_files) /\ k <= Len(time_vector)
    /\ Len(time_vector) <= NumDone + 1
    /\ Len(time_vector) = NumDone + 1 => Len(time_vector) = idx
    /\ Returned => /\ NumDone = Len(file_list)
                   /\ Len(output_files) = NumDone
                   /\ Len(time_vector) = NumDone

\* C7's case: the second entry's destination path is in output_files and
\* its source is about to be opened.
C7_Witness ==
    /\ pc = "open"
    /\ idx = 2
    /\ Len(output_files) = 2
    /\ Len(time_vector) = 2
    /\ ~ConversionDone(2)

\* C8: at most one source and one destination dataset are open, they
\* belong to the entry in progress, and none is open from the start of an
\* iteration until its source is opened.
C8_HandlesScoped ==
    /\ Cardinality({h \in open_ds : h[1] = "src"}) <= 1
    /\ Cardinality({h \in open_ds : h[1] = "dst"}) <= 1
    /\ \A h \in open_ds : h[2] = idx
    /\ pc \in {"for", "extract", "outpath", "open"} => open_ds = {}

\* C8's case: both datasets of a second iteration are open.
C8_Witness ==
    /\ pc = "copy"
    /\ idx >= 2
    /\ open_ds = {<<"src", idx>>, <<"dst", idx>>}

\* C9: an entry is touched only when every entry before it is converted;
\* after a failure no later entry is touched, and the rasters of the
\* entries before the failing one are on disk.
C9_InOrderAbortAtFirstFailure ==
    /\ \A c \in calls :
          /\ c[2] <= idx
          /\ \A j \in 1..c[2] - 1 : <<"close", j>> \in calls
    /\ Failed =>
          /\ err_idx = idx
          /\ \A c \in calls : c[2] <= err_idx
          /\ <<"close", err_idx>> \notin calls
          /\ \A j \in 1..err_idx - 1 :
                OutputPath(output_folder, file_list[j]) \in DOMAIN disk

\* C9's case: the second of three or more entries failed, after the
\* first was converted, and main has returned.
C9_Witness ==
    /\ pc = "aborted"
    /\ err_idx = 2
    /\ Len(file_list) >= 3
    /\ Cardinality(DOMAIN disk) >= 1
    /\ <<"close", 1>> \in calls

\* C10: after a successful run, two entries that differ only in directory
\* or extension have the same destination path; the manifest holds it once
\* for each, the raster on disk is the later one's, and the disk holds
\* fewer rasters than the manifest has lines.
C10_SameNameSameDestination ==
    pc = "done" =>
        LET fl == LinesOf(envi_file_list_txt.text)
        IN  \A i, j \in 1..Len(file_list) :
                (i < j /\ SameUpToDirExt(file_list[i], file_list[j])) =>
                    /\ output_files[i] = output_files[j]
                    /\ fl[i] = output_files[i] /\ fl[j] = output_files[i]
                    /\ disk[output_files[i]].from >= j
                    /\ Cardinality(DOMAIN disk) < Len(fl)

\* C10's case: two different entries with the same name were converted.
C10_Witness ==
    /\ pc = "done"
    /\ \E i, j \in 1..Len(file_list) :
          /\ i < j
          /\ file_list[i] # file_list[j]
          /\ SameUpToDirExt(file_list[i], file_list[j])

=============================================================================
